---- MODULE Spec2Model ----
(***************************************************************************)
(* A model of ax/modelbridge/transforms/unit_x.py (the UnitX transform)    *)
(* and of ax/modelbridge/modelbridge_utils.py (objective, constraint and    *)
(* threshold encoding, pending observations, the round-trip callback, the  *)
(* Pareto frontier and hypervolume helpers).                               *)
(*                                                                         *)
(* Python floats are modelled as exact rationals <<n, d>> in lowest terms  *)
(* with d > 0; None is the empty tuple.  Rounding of IEEE-754 arithmetic   *)
(* is outside the model.                                                   *)
(***************************************************************************)
EXTENDS Integers, Sequences, FiniteSets, TLC

VARIABLES
    \* ---- UnitX ----
    search_space,          \* [parameters: Seq(parameter), parameter_constraints: Seq(constraint)]
    bounds,                \* UnitX.bounds, in insertion order: Seq([name, l, u])
    observation_features,  \* the list handed to (un)transform_observation_features
    raised,                \* the exception of the last call, or "none"
    history,               \* the calls made so far, oldest first
    initial                \* the inputs as constructed (never written after Init)

unitxVars == <<search_space, bounds, observation_features, raised, history, initial>>

VARIABLES
    \* ---- extract_objective_weights ----
    objective,             \* the Objective argument
    outcomes,              \* the outcome names argument
    weights_call           \* [pc, value, raised]: the call's position and result

encoderVars == <<objective, outcomes, weights_call>>

VARIABLES
    \* ---- pareto_frontier, hypervolume and their entry points ----
    call,                  \* the entry point called and its arguments
    modelbridge,           \* [_optimization_config, training_data, transforms, outcomes]
    heap,                  \* the optimization configuration objects, by reference
    pc,                    \* the position of the call
    pf,                    \* the local variables of pareto_frontier
    hv,                    \* the local variables of hypervolume
    trace,                 \* the calls made to collaborators, oldest first
    result                 \* [value, raised]: what the entry point returned or raised

frontierVars == <<call, modelbridge, heap, pc, pf, hv, trace, result>>

VARIABLES
    \* ---- the encoders and helpers called one at a time ----
    arguments,             \* the arguments of the call
    frame,                 \* the local variables and position of a call in progress
    returned               \* [pc, value, raised]: the call's position and result

utilsVars == <<arguments, frame, returned>>

vars == <<unitxVars, encoderVars, frontierVars, utilsVars>>

\* ------------------------------------------------------------------ bounds

\* How many calls one behaviour makes on a UnitX instance.
MaxCalls == 2

\* ------------------------------------------------------- Python values

None == << >>

Abs(a) == IF a < 0 THEN -a ELSE a

RECURSIVE Gcd(_, _)
Gcd(a, b) == IF b = 0 THEN a ELSE Gcd(b, a % b)

\* The float n/d.
Frac(n, d) ==
    LET g == Gcd(Abs(n), Abs(d))
        s == IF d < 0 THEN -1 ELSE 1
    IN  <<(s * n) \div g, (s * d) \div g>>

Float(i) == <<i, 1>>

Add(a, b) == Frac(a[1] * b[2] + b[1] * a[2], a[2] * b[2])
Sub(a, b) == Frac(a[1] * b[2] - b[1] * a[2], a[2] * b[2])
Mul(a, b) == Frac(a[1] * b[1], a[2] * b[2])
Div(a, b) == Frac(a[1] * b[2], a[2] * b[1])
Leq(a, b) == a[1] * b[2] <= b[1] * a[2]

\* --------------------------------------------------- idle components

\* No UnitX transform is in use.
IdleUnitX ==
    /\ search_space = [parameters |-> << >>, parameter_constraints |-> << >>]
    /\ bounds = << >>
    /\ observation_features = << >>
    /\ raised = "none"
    /\ history = << >>
    /\ initial = None

\* No objective is being encoded.
IdleEncoder ==
    /\ objective = None
    /\ outcomes = << >>
    /\ weights_call = [pc |-> "idle", value |-> None, raised |-> "none"]

\* No frontier or hypervolume call is in progress.
IdleFrontier ==
    /\ call = None
    /\ modelbridge = None
    /\ heap = << >>
    /\ pc = "idle"
    /\ pf = None
    /\ hv = None
    /\ trace = << >>
    /\ result = None

\* No helper call is in progress.
IdleUtils ==
    /\ arguments = None
    /\ frame = None
    /\ returned = [pc |-> "idle", value |-> None, raised |-> "none"]

\* ------------------------------------------------------------- unit_x.py

\* A variant that clamps the result to [0, 1].
normalize_value_clamped(value, bnds) ==
    LET r == Div(Sub(value, bnds[1]), Sub(bnds[2], bnds[1]))
    IN  IF Leq(r, Float(0)) THEN Float(0)
        ELSE IF Leq(Float(1), r) THEN Float(1) ELSE r

normalize_value(value, bnds) ==
    LET lower == bnds[1]
        upper == bnds[2]
    IN  Div(Sub(value, lower), Sub(upper, lower))

\* The condition of UnitX.__init__ for recording a parameter's bounds.
IsEligible(p) ==
    /\ p.class = "RangeParameter"
    /\ p.parameter_type = "FLOAT"
    /\ ~p.log_scale

\* UnitX.__init__: self.bounds, in the order of search_space.parameters.
RECURSIVE InitBounds(_, _)
InitBounds(params, i) ==
    IF i > Len(params) THEN << >>
    ELSE LET p == params[i]
             rest == InitBounds(params, i + 1)
         IN  IF IsEligible(p)
             THEN <<[name |-> p.name, l |-> p.lower, u |-> p.upper]>> \o rest
             ELSE rest

BoundNames(bs) == {bs[k].name : k \in DOMAIN bs}

\* self.bounds[p_name], for p_name in self.bounds.
BoundsOf(bs, p_name) ==
    LET k == CHOOSE j \in DOMAIN bs : bs[j].name = p_name
    IN  <<bs[k].l, bs[k].u>>

\* The inner loop of transform_observation_features on one obsf.parameters.
RECURSIVE TransformParameters(_, _, _)
TransformParameters(f, bs, k) ==
    IF k > Len(bs) THEN f
    ELSE IF bs[k].name \in DOMAIN f
         THEN TransformParameters(
                  [f EXCEPT ![bs[k].name] = normalize_value(@, <<bs[k].l, bs[k].u>>)],
                  bs, k + 1)
         ELSE TransformParameters(f, bs, k + 1)

transform_observation_features(bs, obsfs) ==
    [i \in DOMAIN obsfs |-> TransformParameters(obsfs[i], bs, 1)]

\* The inner loop of untransform_observation_features on one obsf.parameters:
\* obsf.parameters[p_name] raises KeyError for a missing name, after the
\* names before it were written in place.
RECURSIVE UntransformParameters(_, _, _)
UntransformParameters(f, bs, k) ==
    IF k > Len(bs) THEN [parameters |-> f, raised |-> "none"]
    ELSE IF bs[k].name \notin DOMAIN f
         THEN [parameters |-> f, raised |-> "KeyError"]
         ELSE UntransformParameters(
                  [f EXCEPT ![bs[k].name] =
                      Add(Mul(@, Sub(bs[k].u, bs[k].l)), bs[k].l)],
                  bs, k + 1)

\* The outer loop: the list after the call and the exception that ended it.
RECURSIVE UntransformFrom(_, _, _)
UntransformFrom(obsfs, bs, i) ==
    IF i > Len(obsfs) THEN [observation_features |-> obsfs, raised |-> "none"]
    ELSE LET r == UntransformParameters(obsfs[i], bs, 1)
             upd == [obsfs EXCEPT ![i] = r.parameters]
         IN  IF r.raised # "none"
             THEN [observation_features |-> upd, raised |-> r.raised]
             ELSE UntransformFrom(upd, bs, i + 1)

untransform_observation_features(bs, obsfs) == UntransformFrom(obsfs, bs, 1)

\* A variant that normalizes the upper bound with the parameter's lower one.
UpdateRange_lower_twice(p, bs) ==
    [p EXCEPT !.lower = normalize_value(p.lower, BoundsOf(bs, p.name)),
              !.upper = normalize_value(p.lower, BoundsOf(bs, p.name))]

\* p.update_range(lower=normalize_value(p.lower, ...), upper=...)
UpdateRange(p, bs) ==
    [p EXCEPT !.lower = normalize_value(p.lower, BoundsOf(bs, p.name)),
              !.upper = normalize_value(p.upper, BoundsOf(bs, p.name))]

\* The first loop of transform_search_space, from parameter i on: the
\* parameters after the loop and the exception that ended it.
RECURSIVE TransformParametersFrom(_, _, _)
TransformParametersFrom(params, bs, i) ==
    IF i > Len(params) THEN [parameters |-> params, raised |-> "none"]
    ELSE LET p == params[i]
             q == IF p.name \in BoundNames(bs) /\ p.class = "RangeParameter"
                  THEN UpdateRange(p, bs)
                  ELSE p
         IN  IF q.target_value # None
             THEN IF p.name \notin BoundNames(bs)
                  THEN [parameters |-> [params EXCEPT ![i] = q],
                        raised |-> "KeyError"]
                  ELSE TransformParametersFrom(
                           [params EXCEPT ![i] =
                               [q EXCEPT !.target_value =
                                   normalize_value(@, BoundsOf(bs, p.name))]],
                           bs, i + 1)
             ELSE TransformParametersFrom([params EXCEPT ![i] = q], bs, i + 1)

\* A variant that scales the weight by u instead of (u - l).
TransformWeight_by_upper(bs, p_name, w) ==
    IF p_name \in BoundNames(bs)
    THEN Mul(w, BoundsOf(bs, p_name)[2])
    ELSE w

\* The weights of a transformed constraint.
TransformWeight(bs, p_name, w) ==
    IF p_name \in BoundNames(bs)
    THEN LET b == BoundsOf(bs, p_name) IN Mul(w, Sub(b[2], b[1]))
    ELSE w

\* bound -= w * l over the constraint's recorded names.
RECURSIVE TransformBound(_, _, _, _)
TransformBound(bs, cd, names, bound) ==
    IF names = {} THEN bound
    ELSE LET p_name == CHOOSE n \in names : TRUE
             b == IF p_name \in BoundNames(bs)
                  THEN Sub(bound, Mul(cd[p_name], BoundsOf(bs, p_name)[1]))
                  ELSE bound
         IN  TransformBound(bs, cd, names \ {p_name}, b)

\* The body of the second loop of transform_search_space.
TransformConstraint(bs, c) ==
    [constraint_dict |->
         [n \in DOMAIN c.constraint_dict |-> TransformWeight(bs, n, c.constraint_dict[n])],
     bound |-> TransformBound(bs, c.constraint_dict, DOMAIN c.constraint_dict, c.bound)]

\* transform_search_space: the search space after the call (written in
\* place) and the exception that ended it.
transform_search_space(bs, ss) ==
    LET r == TransformParametersFrom(ss.parameters, bs, 1)
    IN  IF r.raised # "none"
        THEN [search_space |-> [ss EXCEPT !.parameters = r.parameters],
              raised |-> r.raised]
        ELSE [search_space |->
                  [parameters |-> r.parameters,
                   parameter_constraints |->
                       [j \in DOMAIN ss.parameter_constraints |->
                           TransformConstraint(bs, ss.parameter_constraints[j])]],
              raised |-> "none"]

\* wTx <= b at the point f (a constraint over names f carries).
RECURSIVE Dot(_, _, _)
Dot(cd, f, names) ==
    IF names = {} THEN Float(0)
    ELSE LET n == CHOOSE m \in names : TRUE
         IN  Add(Mul(cd[n], f[n]), Dot(cd, f, names \ {n}))

Satisfied(c, f) == Leq(Dot(c.constraint_dict, f, DOMAIN c.constraint_dict), c.bound)

\* ------------------- modelbridge_utils.py: clamp_observation_features

\* val < bound
Lt(a, b) == ~Leq(b, a)

\* range_parameters: the RangeParameters of the search space, in its order.
RangeParametersOf(ss) ==
    SelectSeq(ss.parameters, LAMBDA p : p.class = "RangeParameter")

\* The inner loop of clamp_observation_features on one obsf.parameters,
\* from range parameter k on.  A value has the Python type of its
\* parameter, so checked_cast returns it.
RECURSIVE ClampParameters(_, _, _)
ClampParameters(f, range_parameters, k) ==
    IF k > Len(range_parameters) THEN f
    ELSE LET p == range_parameters[k]
         IN  IF p.name \notin DOMAIN f
             THEN ClampParameters(f, range_parameters, k + 1)
             ELSE LET val == f[p.name]
                  IN  IF Lt(val, p.lower)
                      THEN ClampParameters([f EXCEPT ![p.name] = p.lower],
                                           range_parameters, k + 1)
                      ELSE IF Lt(p.upper, val)
                      THEN ClampParameters([f EXCEPT ![p.name] = p.upper],
                                           range_parameters, k + 1)
                      ELSE ClampParameters(f, range_parameters, k + 1)

\* clamp_observation_features: the list after the call (written in place).
clamp_observation_features(obsfs, ss) ==
    [i \in DOMAIN obsfs |-> ClampParameters(obsfs[i], RangeParametersOf(ss), 1)]

\* ------------------------------------------------------- UnitX: inputs

RangeParameter(name, type, log, lower, upper, target) ==
    [name |-> name, class |-> "RangeParameter", parameter_type |-> type,
     log_scale |-> log, lower |-> Float(lower), upper |-> Float(upper),
     target_value |-> target]

ChoiceParameter(name) ==
    [name |-> name, class |-> "ChoiceParameter", parameter_type |-> "INT",
     log_scale |-> FALSE, lower |-> None, upper |-> None, target_value |-> None]

\* The parameters a search space may declare under one name.
ParameterChoices(name) ==
    { RangeParameter(name, "FLOAT", FALSE, 2, 10, None),
      RangeParameter(name, "FLOAT", FALSE, 2, 10, Float(10)),
      RangeParameter(name, "FLOAT", FALSE, 0, 5, None),
      RangeParameter(name, "FLOAT", TRUE, 2, 10, None),
      RangeParameter(name, "INT", FALSE, 0, 5, None),
      RangeParameter(name, "INT", FALSE, 0, 5, Float(5)),
      ChoiceParameter(name) }

ParameterConstraint(cd, bound) == [constraint_dict |-> cd, bound |-> Float(bound)]

Weights == {Float(1), Float(0 - 1)}

\* The constraint lists a search space may declare over parameters x and n.
ConstraintChoices(ps) ==
    LET ranged == {ps[i].name : i \in {j \in DOMAIN ps : ps[j].class = "RangeParameter"}}
        dicts == UNION {[D -> Weights] : D \in (SUBSET ranged) \ {{}}}
    IN  {<< >>} \cup {<<ParameterConstraint(cd, 12)>> : cd \in dicts}

SearchSpaces ==
    UNION { { [parameters |-> <<px, pn>>, parameter_constraints |-> cs] :
                cs \in ConstraintChoices(<<px, pn>>) } :
            px \in ParameterChoices("x"), pn \in ParameterChoices("n") }

Features(x, n) == ("x" :> Float(x)) @@ ("n" :> Float(n))

\* Observation features carrying every parameter, values inside and outside
\* the declared ranges.
CompleteFeatures == {Features(x, n) : x \in {0 - 1, 3, 12}, n \in {0, 4}}

\* Observation features that omit a parameter.
PartialFeatures == {"x" :> Float(3), "n" :> Float(4)}

ObservationFeatureLists ==
    {<<f>> : f \in CompleteFeatures \cup PartialFeatures}
        \cup {<<Features(3, 4), f>> : f \in CompleteFeatures \cup PartialFeatures}

\* ------------------------------------------------------ UnitX: actions

InitUnitX ==
    /\ IdleEncoder
    /\ IdleFrontier
    /\ IdleUtils
    /\ search_space \in SearchSpaces
    /\ bounds = InitBounds(search_space.parameters, 1)
    /\ observation_features \in ObservationFeatureLists
    /\ raised = "none"
    /\ history = << >>
    /\ initial = [search_space |-> search_space,
                  observation_features |-> observation_features]

TransformObservationFeatures ==
    /\ Len(history) < MaxCalls
    /\ observation_features' = transform_observation_features(bounds, observation_features)
    /\ raised' = "none"
    /\ history' = Append(history, "transform_observation_features")
    /\ UNCHANGED <<search_space, bounds, initial, encoderVars, frontierVars, utilsVars>>

UntransformObservationFeatures ==
    /\ Len(history) < MaxCalls
    /\ LET r == untransform_observation_features(bounds, observation_features)
       IN  /\ observation_features' = r.observation_features
           /\ raised' = r.raised
    /\ history' = Append(history, "untransform_observation_features")
    /\ UNCHANGED <<search_space, bounds, initial, encoderVars, frontierVars, utilsVars>>

TransformSearchSpace ==
    /\ Len(history) < MaxCalls
    /\ LET r == transform_search_space(bounds, search_space)
       IN  /\ search_space' = r.search_space
           /\ raised' = r.raised
    /\ history' = Append(history, "transform_search_space")
    /\ UNCHANGED <<bounds, observation_features, initial, encoderVars, frontierVars, utilsVars>>

ClampObservationFeatures ==
    /\ Len(history) < MaxCalls
    /\ observation_features' = clamp_observation_features(observation_features, search_space)
    /\ raised' = "none"
    /\ history' = Append(history, "clamp_observation_features")
    /\ UNCHANGED <<search_space, bounds, initial, encoderVars, frontierVars, utilsVars>>

NextUnitX ==
    \/ TransformObservationFeatures
    \/ UntransformObservationFeatures
    \/ TransformSearchSpace
    \/ ClampObservationFeatures

SpecUnitX == InitUnitX /\ [][NextUnitX]_vars

\* ------------------------------------------- extract_objective_weights

\* A variant with the sign of the minimize flag reversed.
Sign_reversed(obj) == IF obj.minimize THEN Float(1) ELSE Float(0 - 1)

\* s = -1.0 if objective.minimize else 1.0
Sign(obj) == IF obj.minimize THEN Float(0 - 1) ELSE Float(1)

\* outcomes.index(name) for a name in the list.
Index(names, name) ==
    CHOOSE i \in DOMAIN names :
        /\ names[i] = name
        /\ \A j \in 1..(i - 1) : names[j] # name

Range(seq) == {seq[i] : i \in DOMAIN seq}

\* Python truth of an optional float: None and 0.0 are false.
Truthy(w) == w # None /\ w[1] # 0

\* obj_weight or s
WeightOr(w, s) == IF Truthy(w) THEN w ELSE s

\* The loops over objective.metric_weights, from pair k on: the array after
\* the loop and the exception that ended it.
RECURSIVE AssignWeights(_, _, _, _, _)
AssignWeights(arr, mws, names, s, k) ==
    IF k > Len(mws) THEN [value |-> arr, raised |-> "none"]
    ELSE IF mws[k][1] \notin Range(names)
         THEN [value |-> None, raised |-> "ValueError"]
         ELSE AssignWeights(
                  [arr EXCEPT ![Index(names, mws[k][1])] =
                      IF s = None THEN mws[k][2] ELSE Mul(mws[k][2], s)],
                  mws, names, s, k + 1)

\* The pairs of a MultiObjective with `obj_weight or s` applied.
OrSign(mws, s) == [k \in DOMAIN mws |-> <<mws[k][1], WeightOr(mws[k][2], s)>>]

extract_objective_weights(obj, names) ==
    LET s == Sign(obj)
        zeros == [i \in DOMAIN names |-> Float(0)]
    IN  IF obj.class = "ScalarizedObjective"
        THEN AssignWeights(zeros, obj.metric_weights, names, s, 1)
        ELSE IF obj.class = "MultiObjective"
        THEN AssignWeights(zeros, OrSign(obj.metric_weights, s), names, None, 1)
        ELSE IF obj.metric \notin Range(names)
             THEN [value |-> None, raised |-> "ValueError"]
             ELSE [value |-> [zeros EXCEPT ![Index(names, obj.metric)] = s],
                   raised |-> "none"]

\* ---- inputs

MetricNames == {"a", "b", "c"}

\* The outcome lists of a model: orders of some of the metric names.
OutcomeLists == {<<"a", "b", "c">>, <<"c", "a", "b">>, <<"b", "a">>, <<"c">>}

\* Declared per-metric weights; a MultiObjective may leave one out (None).
DeclaredWeights == {Float(2), Float(0 - 3), Float(0)}

\* metric_weights over distinct metrics, one or two of them.
MetricWeights(ws) ==
    {<<<<m1, w1>>>> : m1 \in MetricNames, w1 \in ws}
        \cup {<<<<m1, w1>>, <<m2, w2>>>> :
                 m1 \in {"a", "c"}, m2 \in {"b"}, w1 \in ws, w2 \in ws}

Objectives ==
    {[class |-> "Objective", minimize |-> mn, metric |-> mt, metric_weights |-> << >>] :
        mn \in BOOLEAN, mt \in MetricNames}
    \cup {[class |-> "ScalarizedObjective", minimize |-> mn, metric |-> "", metric_weights |-> mw] :
        mn \in BOOLEAN, mw \in MetricWeights(DeclaredWeights)}
    \cup {[class |-> "MultiObjective", minimize |-> mn, metric |-> "", metric_weights |-> mw] :
        mn \in BOOLEAN, mw \in MetricWeights(DeclaredWeights \cup {None})}

InitEncoder ==
    /\ IdleUnitX
    /\ IdleFrontier
    /\ IdleUtils
    /\ objective \in Objectives
    /\ outcomes \in OutcomeLists
    /\ weights_call = [pc |-> "ready", value |-> None, raised |-> "none"]

ExtractObjectiveWeights ==
    /\ weights_call.pc = "ready"
    /\ LET r == extract_objective_weights(objective, outcomes)
       IN  weights_call' = [pc |-> "done", value |-> r.value, raised |-> r.raised]
    /\ UNCHANGED <<objective, outcomes, unitxVars, frontierVars, utilsVars>>

NextEncoder == ExtractObjectiveWeights

SpecEncoder == InitEncoder /\ [][NextEncoder]_vars

\* ------------------------------------ modelbridge_utils.py: the frontier

\* The largest frontier the evaluator returns.
MaxFrontier == 1

\* The most observations in the training data or in a list argument.
MaxObservations == 1

\* The most transforms a model bridge registers.
MaxTransforms == 2

\* Optional arguments: None, or a value.
NoList == [some |-> FALSE, value |-> << >>]
NoRef == [some |-> FALSE, value |-> 0]
Some(v) == [some |-> TRUE, value |-> v]

\* Python truth of an optional list: None and [] are false.
TruthyList(o) == o.some /\ o.value # << >>

MOOC == "MultiObjectiveOptimizationConfig"

Event(op, t) == [op |-> op, t |-> t]

Reverse(seq) == [i \in DOMAIN seq |-> seq[Len(seq) + 1 - i]]

\* The bound extract_objective_thresholds files under a metric name: the
\* dict comprehension keeps the last threshold of a name.
ThresholdOf(ots, name) ==
    ots[CHOOSE k \in DOMAIN ots :
            /\ ots[k][1] = name
            /\ \A j \in DOMAIN ots : ots[j][1] = name => j <= k][2]

RECURSIVE ThresholdsFrom(_, _, _)
ThresholdsFrom(ots, names, i) ==
    IF i > Len(names) THEN << >>
    ELSE IF \E k \in DOMAIN ots : ots[k][1] = names[i]
         THEN <<ThresholdOf(ots, names[i])>> \o ThresholdsFrom(ots, names, i + 1)
         ELSE ThresholdsFrom(ots, names, i + 1)

\* A variant that keeps the order of the thresholds.
extract_objective_thresholds_in_threshold_order(ots, names) ==
    LET kept == SelectSeq(ots, LAMBDA t : t[1] \in Range(names))
    IN  [k \in DOMAIN kept |-> kept[k][2]]

extract_objective_thresholds(ots, names) == ThresholdsFrom(ots, names, 1)

\* checked_cast_optional(MultiObjectiveOptimizationConfig, config): None
\* passes, a multi-objective configuration passes, anything else raises.
checked_cast_optional(h, config) ==
    IF ~config.some THEN [mooc |-> 0, raised |-> "none"]
    ELSE IF h[config.value].class = MOOC
         THEN [mooc |-> config.value, raised |-> "none"]
         ELSE [mooc |-> 0, raised |-> "ValueError"]

\* A variant that prefers the model bridge's configuration.
ResolveConfig_attached_first(h, arg, attached) ==
    IF attached.some /\ h[attached.value].class = MOOC
    THEN [mooc |-> attached.value, raised |-> "none"]
    ELSE IF arg.some THEN [mooc |-> arg.value, raised |-> "none"]
         ELSE [mooc |-> 0, raised |-> "ValueError"]

\* mooc = optimization_config or checked_cast_optional(...); raise if not mooc
ResolveConfig(h, arg, attached) ==
    IF arg.some THEN [mooc |-> arg.value, raised |-> "none"]
    ELSE LET r == checked_cast_optional(h, attached)
         IN  IF r.raised # "none" THEN r
             ELSE IF r.mooc = 0 THEN [mooc |-> 0, raised |-> "ValueError"]
                  ELSE r

\* config.clone_with_args(objective_thresholds=ots): a modified copy.
clone_with_args(config, ots) == [config EXCEPT !.objective_thresholds = ots]

\* config.clone(): a copy.
clone(config) == config

\* modelbridge.transform_optimization_config: the transformed configuration,
\* a fresh object.
transform_optimization_config(config) == config

\* if objective_thresholds:
Overrides(ots) == TruthyList(ots)

\* A variant that writes the thresholds into the configuration itself.
OverrideThresholds_in_place(h, id, ots) ==
    [heap |-> [h EXCEPT ![id] = clone_with_args(h[id], ots)], mooc |-> id]

\* mooc = mooc.clone_with_args(objective_thresholds=objective_thresholds)
OverrideThresholds(h, id, ots) ==
    [heap |-> Append(h, clone_with_args(h[id], ots)), mooc |-> Len(h) + 1]

\* A variant that untransforms in registration order.
UntransformOrder_forward(transforms) == transforms

\* reversed(modelbridge.transforms.values())
UntransformOrder(transforms) == Reverse(transforms)

\* A variant without the test.
IsEmptyFrontier_never(observation_data) == FALSE

\* if not observation_data:
IsEmptyFrontier(observation_data) == observation_data = << >>

\* ---- inputs

MultiObjective(minimize) ==
    [class |-> "MultiObjective", minimize |-> minimize, metric |-> "",
     metric_weights |-> <<<<"a", None>>, <<"b", None>>>>]

Thresholds(bound) == <<<<"b", Float(bound)>>, <<"a", Float(bound + 1)>>>>

\* The configuration the caller passes, and those a model bridge may hold.
ArgumentConfig ==
    [class |-> MOOC, objective |-> MultiObjective(FALSE),
     objective_thresholds |-> Thresholds(1)]

AttachedConfigs ==
    { [class |-> MOOC, objective |-> MultiObjective(TRUE),
       objective_thresholds |-> Thresholds(3)],
      [class |-> "OptimizationConfig",
       objective |-> [class |-> "Objective", minimize |-> FALSE, metric |-> "a",
                      metric_weights |-> << >>],
       objective_thresholds |-> << >>] }

\* The objective_thresholds argument: None, [] or two thresholds.
ThresholdArguments == {NoList, Some(<< >>), Some(Thresholds(5))}

\* Lists of n observations, observation features or observation data.
Items(n) == [i \in 1..n |-> i]

ListArguments == {NoList} \cup {Some(Items(n)) : n \in 0..MaxObservations}

ConfigArguments == {NoRef, Some(1)}

Call(entry, ots, obsf, obsd, cfg) ==
    [entry |-> entry, objective_thresholds |-> ots, observation_features |-> obsf,
     observation_data |-> obsd, optimization_config |-> cfg]

Calls ==
    {Call(e, ots, obsf, obsd, cfg) :
        e \in {"pareto_frontier", "hypervolume"}, ots \in ThresholdArguments,
        obsf \in ListArguments, obsd \in ListArguments, cfg \in ConfigArguments}
    \cup {Call(e, ots, obsf, NoList, cfg) :
        e \in {"predicted_pareto_frontier", "predicted_hypervolume"},
        ots \in ThresholdArguments, obsf \in ListArguments, cfg \in ConfigArguments}
    \cup {Call(e, ots, NoList, NoList, cfg) :
        e \in {"observed_pareto_frontier", "observed_hypervolume"},
        ots \in ThresholdArguments, cfg \in ConfigArguments}

HypervolumeEntries == {"hypervolume", "predicted_hypervolume", "observed_hypervolume"}

NoResult == [value |-> "none", raised |-> "none"]

Arguments(ots, obsf, obsd, cfg) ==
    [objective_thresholds |-> ots, observation_features |-> obsf,
     observation_data |-> obsd, optimization_config |-> cfg,
     X |-> FALSE, Y |-> FALSE, mooc |-> 0, config |-> 0,
     objective_weights |-> << >>, obj_t |-> << >>, invoked |-> FALSE,
     k |-> 0, frontier |-> << >>]

HvArguments(ots, cfg) ==
    [objective_thresholds |-> ots, optimization_config |-> cfg,
     obj_w |-> << >>, obj_t |-> << >>]

\* ---- actions

InitFrontier ==
    /\ IdleUnitX
    /\ IdleEncoder
    /\ IdleUtils
    /\ call \in Calls
    /\ heap \in {<<ArgumentConfig>>} \cup {<<ArgumentConfig, c>> : c \in AttachedConfigs}
    /\ \E n \in 0..MaxObservations, m \in 0..MaxTransforms :
                  modelbridge =
                      [_optimization_config |-> IF Len(heap) = 2 THEN Some(2) ELSE NoRef,
                       training_data |-> Items(n),
                       transforms |-> Items(m),
                       outcomes |-> <<"a", "b">>]
    /\ pc = "called"
    /\ pf = Arguments(NoList, NoList, NoList, NoRef)
    /\ hv = HvArguments(NoList, NoRef)
    /\ trace = << >>
    /\ result = NoResult

Raise(error) ==
    /\ pc' = "done"
    /\ result' = [value |-> "none", raised |-> error]

\* pareto_frontier(...) called directly.
CallParetoFrontier ==
    /\ pc = "called"
    /\ call.entry = "pareto_frontier"
    /\ pf' = Arguments(call.objective_thresholds, call.observation_features,
                       call.observation_data, call.optimization_config)
    /\ pc' = "pf_features"
    /\ UNCHANGED <<call, modelbridge, heap, hv, trace, result, unitxVars, encoderVars, utilsVars>>

\* hypervolume(...) called directly: it starts with pareto_frontier.
CallHypervolume ==
    /\ pc = "called"
    /\ call.entry = "hypervolume"
    /\ hv' = HvArguments(call.objective_thresholds, call.optimization_config)
    /\ pf' = Arguments(call.objective_thresholds, call.observation_features,
                       call.observation_data, call.optimization_config)
    /\ pc' = "pf_features"
    /\ UNCHANGED <<call, modelbridge, heap, trace, result, unitxVars, encoderVars, utilsVars>>

\* [obs.features for obs in modelbridge.get_training_data()], chosen when
\* no observation_features argument is given.
PredictedFeatures ==
    IF call.observation_features.some
    THEN call.observation_features.value
    ELSE modelbridge.training_data

\* predicted_pareto_frontier
CallPredictedParetoFrontier ==
    /\ pc = "called"
    /\ call.entry = "predicted_pareto_frontier"
    /\ IF PredictedFeatures = << >>
       THEN /\ Raise("ValueError")
            /\ UNCHANGED <<pf, hv>>
       ELSE /\ pf' = Arguments(call.objective_thresholds, Some(PredictedFeatures),
                               NoList, call.optimization_config)
            /\ pc' = "pf_features"
            /\ UNCHANGED <<hv, result>>
    /\ UNCHANGED <<call, modelbridge, heap, trace, unitxVars, encoderVars, utilsVars>>

\* predicted_hypervolume
CallPredictedHypervolume ==
    /\ pc = "called"
    /\ call.entry = "predicted_hypervolume"
    /\ IF PredictedFeatures = << >>
       THEN /\ Raise("ValueError")
            /\ UNCHANGED <<pf, hv>>
       ELSE /\ hv' = HvArguments(call.objective_thresholds, call.optimization_config)
            /\ pf' = Arguments(call.objective_thresholds, Some(PredictedFeatures),
                               NoList, call.optimization_config)
            /\ pc' = "pf_features"
            /\ UNCHANGED result
    /\ UNCHANGED <<call, modelbridge, heap, trace, unitxVars, encoderVars, utilsVars>>

\* observed_pareto_frontier
CallObservedParetoFrontier ==
    /\ pc = "called"
    /\ call.entry = "observed_pareto_frontier"
    /\ pf' = Arguments(call.objective_thresholds, NoList,
                       Some(modelbridge.training_data), call.optimization_config)
    /\ pc' = "pf_features"
    /\ UNCHANGED <<call, modelbridge, heap, hv, trace, result, unitxVars, encoderVars, utilsVars>>

\* observed_hypervolume
CallObservedHypervolume ==
    /\ pc = "called"
    /\ call.entry = "observed_hypervolume"
    /\ hv' = HvArguments(call.objective_thresholds, call.optimization_config)
    /\ pf' = Arguments(call.objective_thresholds, NoList,
                       Some(modelbridge.training_data), call.optimization_config)
    /\ pc' = "pf_features"
    /\ UNCHANGED <<call, modelbridge, heap, trace, result, unitxVars, encoderVars, utilsVars>>

\* pareto_frontier, lines 456-461: X.
PfTransformFeatures ==
    /\ pc = "pf_features"
    /\ IF TruthyList(pf.observation_features)
       THEN /\ pf' = [pf EXCEPT !.X = TRUE]
            /\ trace' = Append(trace, Event("modelbridge.transform_observation_features", 0))
       ELSE UNCHANGED <<pf, trace>>
    /\ pc' = "pf_data"
    /\ UNCHANGED <<call, modelbridge, heap, hv, result, unitxVars, encoderVars, utilsVars>>

\* pareto_frontier, lines 462-466: Y, Yvar.
PfTransformData ==
    /\ pc = "pf_data"
    /\ IF TruthyList(pf.observation_data)
       THEN /\ pf' = [pf EXCEPT !.Y = TRUE]
            /\ trace' = Append(trace, Event("modelbridge.transform_observation_data", 0))
       ELSE UNCHANGED <<pf, trace>>
    /\ pc' = "pf_config"
    /\ UNCHANGED <<call, modelbridge, heap, hv, result, unitxVars, encoderVars, utilsVars>>

\* pareto_frontier, lines 468-481: mooc.
PfResolveConfig ==
    /\ pc = "pf_config"
    /\ LET r == ResolveConfig(heap, pf.optimization_config, modelbridge._optimization_config)
       IN  IF r.raised # "none"
           THEN /\ Raise(r.raised)
                /\ UNCHANGED pf
           ELSE /\ pf' = [pf EXCEPT !.mooc = r.mooc]
                /\ pc' = "pf_override"
                /\ UNCHANGED result
    /\ UNCHANGED <<call, modelbridge, heap, hv, trace, unitxVars, encoderVars, utilsVars>>

\* pareto_frontier, lines 482-485: the threshold override.
PfOverrideThresholds ==
    /\ pc = "pf_override"
    /\ IF Overrides(pf.objective_thresholds)
       THEN LET r == OverrideThresholds(heap, pf.mooc, pf.objective_thresholds.value)
            IN  /\ heap' = r.heap
                /\ pf' = [pf EXCEPT !.mooc = r.mooc]
       ELSE UNCHANGED <<heap, pf>>
    /\ pc' = "pf_transform_config"
    /\ UNCHANGED <<call, modelbridge, hv, trace, result, unitxVars, encoderVars, utilsVars>>

\* pareto_frontier, lines 487-491: the transformed configuration.
PfTransformConfig ==
    /\ pc = "pf_transform_config"
    /\ heap' = Append(heap, transform_optimization_config(heap[pf.mooc]))
    /\ pf' = [pf EXCEPT !.config = Len(heap) + 1]
    /\ trace' = Append(trace, Event("modelbridge.transform_optimization_config", 0))
    /\ pc' = "pf_extract"
    /\ UNCHANGED <<call, modelbridge, hv, result, unitxVars, encoderVars, utilsVars>>

\* pareto_frontier, lines 492-512: weights, constraints and thresholds.
PfExtract ==
    /\ pc = "pf_extract"
    /\ LET w == extract_objective_weights(heap[pf.config].objective, modelbridge.outcomes)
       IN  IF w.raised # "none"
           THEN /\ Raise(w.raised)
                /\ UNCHANGED pf
           ELSE /\ pf' = [pf EXCEPT
                          !.objective_weights = w.value,
                          !.obj_t = extract_objective_thresholds(
                                        heap[pf.config].objective_thresholds,
                                        modelbridge.outcomes)]
                /\ pc' = "pf_evaluate"
                /\ UNCHANGED result
    /\ trace' = Append(trace, Event("extract_objective_weights", 0))
    /\ UNCHANGED <<call, modelbridge, heap, hv, unitxVars, encoderVars, utilsVars>>

\* pareto_frontier, lines 513-527: the frontier evaluator returns n points.
PfEvaluate ==
    /\ pc = "pf_evaluate"
    /\ \E n \in 0..MaxFrontier :
           pf' = [pf EXCEPT !.invoked = TRUE, !.frontier = Items(n), !.k = 1]
    /\ trace' = Append(trace, Event("frontier_evaluator", 0))
    /\ pc' = "pf_untransform"
    /\ UNCHANGED <<call, modelbridge, heap, hv, result, unitxVars, encoderVars, utilsVars>>

\* pareto_frontier, line 515: the frontier evaluator raises.
PfEvaluatorRaises ==
    /\ pc = "pf_evaluate"
    /\ pf' = [pf EXCEPT !.invoked = TRUE]
    /\ trace' = Append(trace, Event("frontier_evaluator", 0))
    /\ Raise("EvaluatorError")
    /\ UNCHANGED <<call, modelbridge, heap, hv, unitxVars, encoderVars, utilsVars>>

\* pareto_frontier, lines 529-532: one turn of the untransform loop.
PfUntransform ==
    /\ pc = "pf_untransform"
    /\ pf.k <= Len(modelbridge.transforms)
    /\ trace' = Append(trace, Event("untransform_observation_data",
                                    UntransformOrder(modelbridge.transforms)[pf.k]))
    /\ pf' = [pf EXCEPT !.k = @ + 1]
    /\ UNCHANGED <<call, modelbridge, heap, pc, hv, result, unitxVars, encoderVars, utilsVars>>

\* pareto_frontier, line 533, to a frontier entry point's caller.
PfReturn ==
    /\ pc = "pf_untransform"
    /\ pf.k > Len(modelbridge.transforms)
    /\ call.entry \notin HypervolumeEntries
    /\ pc' = "done"
    /\ result' = [value |-> "frontier", raised |-> "none"]
    /\ UNCHANGED <<call, modelbridge, heap, pf, hv, trace, unitxVars, encoderVars, utilsVars>>

\* pareto_frontier, line 533, to hypervolume (line 618).
PfReturnToHypervolume ==
    /\ pc = "pf_untransform"
    /\ pf.k > Len(modelbridge.transforms)
    /\ call.entry \in HypervolumeEntries
    /\ pc' = "hv_check"
    /\ UNCHANGED <<call, modelbridge, heap, pf, hv, trace, result, unitxVars, encoderVars, utilsVars>>

\* hypervolume, lines 625-627: the hypervolume of an empty set.
HvReturnZero ==
    /\ pc = "hv_check"
    /\ IsEmptyFrontier(pf.frontier)
    /\ pc' = "done"
    /\ result' = [value |-> "0", raised |-> "none"]
    /\ UNCHANGED <<call, modelbridge, heap, pf, hv, trace, unitxVars, encoderVars, utilsVars>>

\* hypervolume, line 628: means.
HvTransformMeans ==
    /\ pc = "hv_check"
    /\ ~IsEmptyFrontier(pf.frontier)
    /\ trace' = Append(trace, Event("modelbridge._transform_observation_data", 0))
    /\ pc' = "hv_config"
    /\ UNCHANGED <<call, modelbridge, heap, pf, hv, result, unitxVars, encoderVars, utilsVars>>

\* hypervolume, lines 630-640: a clone of the configuration.
HvCloneConfig ==
    /\ pc = "hv_config"
    /\ LET source == IF hv.optimization_config.some
                     THEN hv.optimization_config
                     ELSE modelbridge._optimization_config
       IN  IF source.some
           THEN /\ heap' = Append(heap, clone(heap[source.value]))
                /\ hv' = [hv EXCEPT !.optimization_config = Some(Len(heap) + 1)]
           ELSE /\ hv' = [hv EXCEPT !.optimization_config = NoRef]
                /\ UNCHANGED heap
    /\ pc' = "hv_override"
    /\ UNCHANGED <<call, modelbridge, pf, trace, result, unitxVars, encoderVars, utilsVars>>

\* hypervolume, lines 642-645: the threshold override.
HvOverrideThresholds ==
    /\ pc = "hv_override"
    /\ IF hv.objective_thresholds.some
       THEN IF hv.optimization_config.some
            THEN LET r == OverrideThresholds(heap, hv.optimization_config.value,
                                             hv.objective_thresholds.value)
                 IN  /\ heap' = r.heap
                     /\ hv' = [hv EXCEPT !.optimization_config = Some(r.mooc)]
                     /\ pc' = "hv_extract"
                     /\ UNCHANGED result
            ELSE /\ Raise("AttributeError")
                 /\ UNCHANGED <<heap, hv>>
       ELSE /\ pc' = "hv_extract"
            /\ UNCHANGED <<heap, hv, result>>
    /\ UNCHANGED <<call, modelbridge, pf, trace, unitxVars, encoderVars, utilsVars>>

\* hypervolume, lines 647-655: weights and the reference point.
HvExtract ==
    /\ pc = "hv_extract"
    /\ IF ~hv.optimization_config.some
       THEN /\ Raise("AttributeError")
            /\ UNCHANGED <<hv, trace>>
       ELSE LET config == heap[hv.optimization_config.value]
                w == extract_objective_weights(config.objective, modelbridge.outcomes)
            IN  IF w.raised # "none"
                   THEN /\ trace' = Append(trace,
                                Event("hypervolume.extract_objective_weights", 0))
                        /\ Raise(w.raised)
                        /\ UNCHANGED hv
                   ELSE /\ trace' = trace \o
                                <<Event("hypervolume.extract_objective_weights", 0),
                                  Event("hypervolume.extract_objective_thresholds", 0)>>
                        /\ hv' = [hv EXCEPT
                                  !.obj_w = w.value,
                                  !.obj_t = extract_objective_thresholds(
                                                config.objective_thresholds,
                                                modelbridge.outcomes)]
                        /\ pc' = "hv_compute"
                        /\ UNCHANGED result
    /\ UNCHANGED <<call, modelbridge, heap, pf, unitxVars, encoderVars, utilsVars>>

\* hypervolume, lines 656-661: the integral.
HvCompute ==
    /\ pc = "hv_compute"
    /\ trace' = Append(trace, Event("Hypervolume.compute", 0))
    /\ pc' = "done"
    /\ result' = [value |-> "hv.compute(means)", raised |-> "none"]
    /\ UNCHANGED <<call, modelbridge, heap, pf, hv, unitxVars, encoderVars, utilsVars>>

NextFrontier ==
    \/ CallParetoFrontier
    \/ CallHypervolume
    \/ CallPredictedParetoFrontier
    \/ CallPredictedHypervolume
    \/ CallObservedParetoFrontier
    \/ CallObservedHypervolume
    \/ PfTransformFeatures
    \/ PfTransformData
    \/ PfResolveConfig
    \/ PfOverrideThresholds
    \/ PfTransformConfig
    \/ PfExtract
    \/ PfEvaluate
    \/ PfEvaluatorRaises
    \/ PfUntransform
    \/ PfReturn
    \/ PfReturnToHypervolume
    \/ HvReturnZero
    \/ HvTransformMeans
    \/ HvCloneConfig
    \/ HvOverrideThresholds
    \/ HvExtract
    \/ HvCompute

SpecFrontier == InitFrontier /\ [][NextFrontier]_vars

\* ------------------------------------------------------ UnitX: claims

Complete(f) == BoundNames(bounds) \subseteq DOMAIN f

\* The example search space of the specification: a float parameter bounded
\* [2, 10], an integer parameter bounded [0, 5], and 1*x + 1*n <= 12.
ExampleSearchSpace(target) ==
    [parameters |-> <<RangeParameter("x", "FLOAT", FALSE, 2, 10, target),
                      RangeParameter("n", "INT", FALSE, 0, 5, None)>>,
     parameter_constraints |->
         <<ParameterConstraint(("x" :> Float(1)) @@ ("n" :> Float(1)), 12)>>]

ExampleTransformed(target) ==
    [parameters |-> <<RangeParameter("x", "FLOAT", FALSE, 0, 1, target),
                      RangeParameter("n", "INT", FALSE, 0, 5, None)>>,
     parameter_constraints |->
         <<ParameterConstraint(("x" :> Float(8)) @@ ("n" :> Float(1)), 10)>>]

\* C1: UnitX round trip.  For every observation feature carrying the
\* recorded parameters, untransform_observation_features applied to the
\* result of transform_observation_features gives back every value, also a
\* value outside [l, u], and raises nothing; transform_observation_features
\* leaves the value of every parameter without recorded bounds unchanged.
\* In particular a behaviour that transforms and then untransforms the
\* features it was given ends with the features it was given.
C1_RoundTrip ==
    /\ \A i \in DOMAIN observation_features :
           LET f == observation_features[i]
               t == transform_observation_features(bounds, <<f>>)
           IN  /\ \A p \in DOMAIN f \ BoundNames(bounds) : t[1][p] = f[p]
               /\ DOMAIN t[1] = DOMAIN f
               /\ Complete(f) =>
                      untransform_observation_features(bounds, t)
                          = [observation_features |-> <<f>>, raised |-> "none"]
    /\ ( /\ history = <<"transform_observation_features",
                        "untransform_observation_features">>
         /\ raised = "none" )
           => observation_features = initial.observation_features

\* A round trip has run on a feature whose eligible x = 12 lies outside the
\* recorded [2, 10] and whose n is ineligible.
C1_Witness ==
    /\ history = <<"transform_observation_features", "untransform_observation_features">>
    /\ raised = "none"
    /\ BoundNames(bounds) = {"x"}
    /\ BoundsOf(bounds, "x") = <<Float(2), Float(10)>>
    /\ \E i \in DOMAIN observation_features :
           /\ observation_features[i] = Features(12, 4)
           /\ initial.observation_features[i] = Features(12, 4)

\* Exactly one transform_search_space (which returned) and exactly one
\* transform_observation_features have run, in either order.
NormalizedOnce ==
    /\ history \in {<<"transform_search_space", "transform_observation_features">>,
                    <<"transform_observation_features", "transform_search_space">>}
    /\ transform_search_space(bounds, initial.search_space).raised = "none"

\* C2: UnitX constraint preservation.  For every linear constraint over any
\* mix of eligible and ineligible parameters and every point carrying the
\* constraint's parameters, the constraint transform_search_space produces,
\* evaluated at the normalized point, has the truth value of the original
\* constraint at the original point.
C2_ConstraintPreserved ==
    /\ \A j \in DOMAIN search_space.parameter_constraints :
       \A i \in DOMAIN observation_features :
           LET c == search_space.parameter_constraints[j]
               f == observation_features[i]
           IN  DOMAIN c.constraint_dict \subseteq DOMAIN f =>
                   ( Satisfied(TransformConstraint(bounds, c),
                               transform_observation_features(bounds, <<f>>)[1])
                     <=> Satisfied(c, f) )
    /\ NormalizedOnce =>
           \A j \in DOMAIN search_space.parameter_constraints :
           \A i \in DOMAIN observation_features :
               DOMAIN initial.search_space.parameter_constraints[j].constraint_dict
                       \subseteq DOMAIN observation_features[i] =>
                   ( Satisfied(search_space.parameter_constraints[j],
                               observation_features[i])
                     <=> Satisfied(initial.search_space.parameter_constraints[j],
                                   initial.observation_features[i]) )

\* The search space and a point on the constraint's boundary (x + n = 12)
\* have both been normalized; the constraint mixes an eligible and an
\* ineligible parameter.
C2_Witness ==
    /\ NormalizedOnce
    /\ initial.search_space = ExampleSearchSpace(None)
    /\ \E i \in DOMAIN observation_features :
           /\ initial.observation_features[i] = Features(12, 0)
           /\ Satisfied(search_space.parameter_constraints[1], observation_features[i])
    /\ search_space.parameter_constraints[1].bound = Float(10)

\* The search space is the one the transform was built from: each recorded
\* parameter declares the recorded bounds.
DeclaresRecordedBounds(ss) ==
    \A i \in DOMAIN ss.parameters :
        ss.parameters[i].name \in BoundNames(bounds) =>
            <<ss.parameters[i].lower, ss.parameters[i].upper>>
                = BoundsOf(bounds, ss.parameters[i].name)

\* C3: transform_search_space.  When a call on the search space the
\* transform was built from returns, every eligible parameter declares the
\* bounds (0, 1), and a declared target value t of an eligible parameter has
\* become (t - l)/(u - l); the example search space (float [2, 10], integer
\* [0, 5], 1*x + 1*n <= 12) becomes float (0, 1), integer [0, 5],
\* 8*x + 1*n <= 10.
C3_SearchSpaceTransformed ==
    [][ ( /\ history' = Append(history, "transform_search_space")
          /\ raised' = "none" )
        => /\ \A i \in DOMAIN search_space.parameters :
                  LET p == search_space.parameters[i]
                      q == search_space'.parameters[i]
                  IN  p.name \in BoundNames(bounds) =>
                        /\ DeclaresRecordedBounds(search_space) =>
                               (q.lower = Float(0) /\ q.upper = Float(1))
                        /\ p.target_value # None =>
                               LET b == BoundsOf(bounds, p.name)
                               IN  q.target_value =
                                       Div(Sub(p.target_value, b[1]), Sub(b[2], b[1]))
           /\ \A t \in {None, Float(10)} :
                  search_space = ExampleSearchSpace(t) =>
                      search_space' = ExampleTransformed(IF t = None THEN None ELSE Float(1))
      ]_vars

\* transform_search_space has returned on the example search space whose
\* float parameter declares the target value 10.
C3_Witness ==
    /\ history = <<"transform_search_space">>
    /\ raised = "none"
    /\ initial.search_space = ExampleSearchSpace(Float(10))
    /\ search_space = ExampleTransformed(Float(1))

\* -------------------------------------- extract_objective_weights: claims

ObjectiveMetrics(obj) ==
    IF obj.class = "Objective" THEN {obj.metric}
    ELSE {obj.metric_weights[k][1] : k \in DOMAIN obj.metric_weights}

\* The declared weight of metric name in a scalarized or multi-objective.
DeclaredWeight(obj, name) ==
    obj.metric_weights[CHOOSE k \in DOMAIN obj.metric_weights :
                           obj.metric_weights[k][1] = name][2]

PlusMinusOne(obj) == IF obj.minimize THEN <<0 - 1, 1>> ELSE <<1, 1>>

\* C9: extract_objective_weights on a single-metric or scalarized objective.
\* With every objective metric among the outcomes the result has one entry
\* per outcome: for a single-metric objective -1 (minimize) or +1 at the
\* metric's index; for a scalarized objective the declared weight times -1
\* (minimize) or +1 at each metric's index; 0 at every other outcome.  With
\* an objective metric absent from the outcomes the call raises.
C9_SingleAndScalarizedWeights ==
    ( /\ weights_call.pc = "done"
      /\ objective.class \in {"Objective", "ScalarizedObjective"} )
    => IF ObjectiveMetrics(objective) \subseteq Range(outcomes)
       THEN /\ weights_call.raised = "none"
            /\ Len(weights_call.value) = Len(outcomes)
            /\ \A i \in DOMAIN outcomes :
                   weights_call.value[i] =
                       IF outcomes[i] \notin ObjectiveMetrics(objective)
                       THEN <<0, 1>>
                       ELSE IF objective.class = "Objective"
                       THEN PlusMinusOne(objective)
                       ELSE LET w == DeclaredWeight(objective, outcomes[i])
                            IN  <<w[1] * PlusMinusOne(objective)[1], w[2]>>
       ELSE weights_call.raised # "none"

\* A minimized scalarized objective 2*a - 3*b was encoded over the outcomes
\* c, a, b as [0, -2, 3].
C9_Witness ==
    /\ weights_call.pc = "done"
    /\ objective.class = "ScalarizedObjective"
    /\ objective.minimize
    /\ objective.metric_weights = <<<<"a", Float(2)>>, <<"b", Float(0 - 3)>>>>
    /\ outcomes = <<"c", "a", "b">>
    /\ weights_call.value = <<Float(0), Float(0 - 2), Float(3)>>

\* C10: extract_objective_weights on a multi-objective.  Every metric whose
\* weight is provided, whatever its value, gets exactly that weight at its
\* outcome index; every metric with no weight gets -1 (minimize) or +1;
\* every other outcome gets 0.
C10_MultiObjectiveWeights ==
    ( /\ weights_call.pc = "done"
      /\ objective.class = "MultiObjective"
      /\ ObjectiveMetrics(objective) \subseteq Range(outcomes) )
    => /\ weights_call.raised = "none"
       /\ \A i \in DOMAIN outcomes :
              weights_call.value[i] =
                  IF outcomes[i] \notin ObjectiveMetrics(objective)
                  THEN <<0, 1>>
                  ELSE LET w == DeclaredWeight(objective, outcomes[i])
                       IN  IF w # None THEN w ELSE PlusMinusOne(objective)

\* ---------------------------------------------------- frontier: claims

Positions(op) == {i \in DOMAIN trace : trace[i].op = op}

ForwardOps ==
    {"modelbridge.transform_observation_features",
     "modelbridge.transform_observation_data",
     "modelbridge.transform_optimization_config"}

IsUntransform(e) == e.op = "untransform_observation_data"

\* The transforms untransformed so far, in the order of the calls.
Untransformed ==
    LET es == SelectSeq(trace, IsUntransform) IN [i \in DOMAIN es |-> es[i].t]

\* pareto_frontier has returned its frontier.
FrontierReturned ==
    /\ pf.invoked
    /\ pf.k > Len(modelbridge.transforms)
    /\ pc # "pf_untransform"

\* C4: pareto_frontier ordering.  The frontier evaluator is invoked at most
\* once, and exactly once by the time pareto_frontier returns; when it is
\* invoked the forward transforms of the supplied features, of the supplied
\* data and of the optimization configuration have been applied and none is
\* applied after it; no transform is untransformed before the evaluator has
\* returned; the untransforms follow reverse registration order, one per
\* registered transform once pareto_frontier has returned.
C4_FrontierOrdering ==
    /\ Cardinality(Positions("frontier_evaluator")) <= 1
    /\ pf.invoked <=> Positions("frontier_evaluator") # {}
    /\ \A e \in Positions("frontier_evaluator") :
           /\ \E i \in 1..(e - 1) :
                  trace[i].op = "modelbridge.transform_optimization_config"
           /\ TruthyList(pf.observation_features) =>
                  \E i \in 1..(e - 1) :
                      trace[i].op = "modelbridge.transform_observation_features"
           /\ TruthyList(pf.observation_data) =>
                  \E i \in 1..(e - 1) :
                      trace[i].op = "modelbridge.transform_observation_data"
           /\ \A i \in DOMAIN trace : i > e => trace[i].op \notin ForwardOps
    /\ \A op \in ForwardOps : Cardinality(Positions(op)) <= 1
    /\ \A i \in Positions("untransform_observation_data") :
           /\ \E e \in Positions("frontier_evaluator") : e < i
           /\ pf.k >= 1
    /\ result.raised = "EvaluatorError" => Untransformed = << >>
    /\ Untransformed = SubSeq(Reverse(modelbridge.transforms), 1, Len(Untransformed))
    /\ FrontierReturned => Untransformed = Reverse(modelbridge.transforms)

\* pareto_frontier has returned a frontier computed from features and data
\* under two registered transforms.
C4_Witness ==
    /\ pc = "done"
    /\ call.entry = "pareto_frontier"
    /\ result = [value |-> "frontier", raised |-> "none"]
    /\ modelbridge.transforms = <<1, 2>>
    /\ trace = <<Event("modelbridge.transform_observation_features", 0),
                 Event("modelbridge.transform_observation_data", 0),
                 Event("modelbridge.transform_optimization_config", 0),
                 Event("extract_objective_weights", 0),
                 Event("frontier_evaluator", 0),
                 Event("untransform_observation_data", 2),
                 Event("untransform_observation_data", 1)>>

\* The model bridge holds a multi-objective configuration.
AttachedMultiObjective ==
    /\ modelbridge._optimization_config.some
    /\ heap[modelbridge._optimization_config.value].class = MOOC

\* C5: pareto_frontier configuration resolution.  The configuration the
\* weights are encoded from is the optimization_config argument when one is
\* given, whatever the model bridge holds, and the model bridge's
\* configuration when none is given; with no argument and no multi-objective
\* configuration on the model bridge the call raises and the frontier
\* evaluator is never invoked.
C5_ConfigResolution ==
    /\ pf.invoked =>
           IF call.optimization_config.some
           THEN /\ heap[pf.config].objective = ArgumentConfig.objective
                /\ ~Overrides(pf.objective_thresholds) =>
                       heap[pf.config].objective_thresholds
                           = ArgumentConfig.objective_thresholds
           ELSE /\ AttachedMultiObjective
                /\ heap[pf.config].objective = heap[2].objective
                /\ heap[pf.config].objective # ArgumentConfig.objective
                /\ ~Overrides(pf.objective_thresholds) =>
                       heap[pf.config].objective_thresholds
                           = heap[2].objective_thresholds
    /\ (~call.optimization_config.some /\ ~AttachedMultiObjective) =>
           /\ ~pf.invoked
           /\ Positions("frontier_evaluator") = {}
           /\ pc \in {"called", "pf_features", "pf_data", "pf_config", "done"}
           /\ pc = "done" => result.raised = "ValueError"

\* The argument's configuration was used although the model bridge holds a
\* multi-objective configuration of its own.
C5_Witness ==
    /\ pc = "done"
    /\ result.raised = "none"
    /\ call.optimization_config.some
    /\ AttachedMultiObjective
    /\ pf.invoked
    /\ pf.objective_weights = <<Float(1), Float(1)>>

\* C6: insufficient data.  predicted_pareto_frontier and
\* predicted_hypervolume raise when the observation features are empty,
\* observed_pareto_frontier raises when the training data is empty, and in
\* neither case is the frontier evaluator invoked.
C6_InsufficientData ==
    ( \/ /\ call.entry \in {"predicted_pareto_frontier", "predicted_hypervolume"}
         /\ PredictedFeatures = << >>
      \/ /\ call.entry = "observed_pareto_frontier"
         /\ modelbridge.training_data = << >> )
    => /\ ~pf.invoked
       /\ pc = "done" => result.raised # "none"

\* C7: empty frontier hypervolume.  Whenever the frontier pareto_frontier
\* returned to hypervolume is empty, hypervolume returns 0 without raising,
\* and it neither converts means, nor encodes weights or thresholds, nor
\* calls the hypervolume integrator.
C7_EmptyFrontierHypervolume ==
    ( /\ call.entry \in HypervolumeEntries
      /\ FrontierReturned
      /\ pf.frontier = << >> )
    => /\ pc \in {"hv_check", "done"}
       /\ pc = "done" => result = [value |-> "0", raised |-> "none"]
       /\ \A i \in DOMAIN trace :
              trace[i].op \notin {"modelbridge._transform_observation_data",
                                  "hypervolume.extract_objective_weights",
                                  "hypervolume.extract_objective_thresholds",
                                  "Hypervolume.compute"}

\* hypervolume has returned 0 for an empty frontier.
C7_Witness ==
    /\ pc = "done"
    /\ call.entry = "hypervolume"
    /\ pf.invoked
    /\ pf.frontier = << >>
    /\ result = [value |-> "0", raised |-> "none"]

\* The configuration pareto_frontier resolved, before any override.
ResolvedConfig ==
    IF call.optimization_config.some
    THEN call.optimization_config.value
    ELSE modelbridge._optimization_config.value

\* The bounds of a threshold list that names every outcome once, in outcome
\* order.
InOutcomeOrder(ots) ==
    [i \in DOMAIN modelbridge.outcomes |->
        ots[CHOOSE k \in DOMAIN ots : ots[k][1] = modelbridge.outcomes[i]][2]]

\* The configurations the caller and the model bridge hold are as given.
ConfigsUntouched ==
    /\ heap[1] = ArgumentConfig
    /\ modelbridge._optimization_config.some => heap[2] \in AttachedConfigs

\* C8 as claimed: whenever objective thresholds are supplied (a list, empty
\* or not), the thresholds passed to the frontier evaluator are the
\* supplied ones, and the resolved configuration keeps its thresholds.
C8_SuppliedThresholdsPassed ==
    (pf.objective_thresholds.some /\ pf.invoked) =>
        /\ Len(pf.obj_t) = Len(pf.objective_thresholds.value)
        /\ pf.objective_thresholds.value # << >> =>
               pf.obj_t = InOutcomeOrder(pf.objective_thresholds.value)
        /\ ConfigsUntouched

\* C8, amended: when a non-empty list of objective thresholds is supplied,
\* the thresholds passed to the frontier evaluator are the supplied ones and
\* not those of the resolved configuration; an empty list, like None, leaves
\* the resolved configuration's thresholds in use; in every case the
\* resolved configuration object keeps its thresholds.
C8_NonEmptyThresholdsOverride ==
    /\ ConfigsUntouched
    /\ pf.invoked =>
           IF TruthyList(pf.objective_thresholds)
           THEN /\ pf.obj_t = InOutcomeOrder(pf.objective_thresholds.value)
                /\ pf.obj_t # InOutcomeOrder(heap[ResolvedConfig].objective_thresholds)
                /\ pf.mooc # ResolvedConfig
           ELSE /\ pf.obj_t = InOutcomeOrder(heap[ResolvedConfig].objective_thresholds)
                /\ pf.mooc = ResolvedConfig

\* The evaluator was handed the supplied thresholds (a: 6, b: 5) in place of
\* those of the caller's configuration, which still holds its own.
C8_Witness ==
    /\ pc = "done"
    /\ result.raised = "none"
    /\ call.optimization_config.some
    /\ pf.objective_thresholds = Some(Thresholds(5))
    /\ pf.invoked
    /\ pf.obj_t = <<Float(6), Float(5)>>
    /\ heap[1].objective_thresholds = Thresholds(1)

\* ------------------------------------------ extract_outcome_constraints

\* A variant that takes every constraint as a <= constraint.
ConstraintSign_always_leq(c) == 1

\* s = 1 if c.op == ComparisonOp.LEQ else -1
ConstraintSign(c) == IF c.op = "LEQ" THEN 1 ELSE 0 - 1

\* The loop over enumerate(outcome_constraints), from constraint i on: the
\* arrays after the loop and the exception that ended it.
RECURSIVE EncodeConstraints(_, _, _, _, _)
EncodeConstraints(A, b, ocs, names, i) ==
    IF i > Len(ocs) THEN [value |-> <<A, b>>, raised |-> "none"]
    ELSE IF ocs[i].metric \notin Range(names)
         THEN [value |-> None, raised |-> "ValueError"]
         ELSE LET sgn == ConstraintSign(ocs[i])
                  j == Index(names, ocs[i].metric)
              IN  EncodeConstraints(
                      [A EXCEPT ![i][j] = Float(sgn)],
                      [b EXCEPT ![i][1] = Mul(Float(sgn), ocs[i].bound)],
                      ocs, names, i + 1)

extract_outcome_constraints(ocs, names) ==
    IF Len(ocs) > 0
    THEN EncodeConstraints(
             [i \in DOMAIN ocs |-> [j \in DOMAIN names |-> Float(0)]],
             [i \in DOMAIN ocs |-> <<Float(0)>>],
             ocs, names, 1)
    ELSE [value |-> None, raised |-> "none"]

\* ---- inputs

OutcomeConstraint(metric, op, bound) == [metric |-> metric, op |-> op, bound |-> bound]

ConstraintBounds == {Float(3), Float(0 - 2), Float(0)}

OutcomeConstraintChoices ==
    {OutcomeConstraint(mt, op, bd) :
        mt \in MetricNames, op \in {"LEQ", "GEQ"}, bd \in ConstraintBounds}

\* The most outcome constraints in one list.
MaxConstraints == 2

OutcomeConstraintLists ==
    UNION {[1..n -> OutcomeConstraintChoices] : n \in 0..MaxConstraints}

InitOutcomeConstraints ==
    /\ IdleUnitX
    /\ IdleEncoder
    /\ IdleFrontier
    /\ arguments \in {[outcome_constraints |-> ocs, outcomes |-> names] :
                         ocs \in OutcomeConstraintLists, names \in OutcomeLists}
    /\ frame = None
    /\ returned = [pc |-> "ready", value |-> None, raised |-> "none"]

ExtractOutcomeConstraints ==
    /\ returned.pc = "ready"
    /\ LET r == extract_outcome_constraints(arguments.outcome_constraints,
                                            arguments.outcomes)
       IN  returned' = [pc |-> "done", value |-> r.value, raised |-> r.raised]
    /\ UNCHANGED <<arguments, frame, unitxVars, encoderVars, frontierVars>>

NextOutcomeConstraints == ExtractOutcomeConstraints

SpecOutcomeConstraints == InitOutcomeConstraints /\ [][NextOutcomeConstraints]_vars

\* ---- claim C11

\* Outcome vectors to read a row at.
OutcomeValues == {Float(0 - 3), Float(0 - 2), Float(0), Float(3), Float(4)}

\* row . y
RECURSIVE RowDot(_, _, _)
RowDot(row, y, j) ==
    IF j > Len(row) THEN Float(0)
    ELSE Add(Mul(row[j], y[j]), RowDot(row, y, j + 1))

\* The declared constraint at the outcome vector y.
Declared(c, names, y) ==
    LET v == y[Index(names, c.metric)]
    IN  IF c.op = "LEQ" THEN Leq(v, c.bound) ELSE Leq(c.bound, v)

\* C11: extract_outcome_constraints, for a non-empty constraint list.  When
\* every constrained metric is in the outcome list, row i of A has a single
\* non-zero entry, at the metric's outcome index: +1 with b[i] = bound for a
\* <= constraint, -1 with b[i] = -bound for a >= constraint, and
\* A[i].y <= b[i] holds exactly when the declared constraint holds at y.  A
\* constraint on a metric absent from the outcome list raises.
C11_OutcomeConstraintRows ==
    (returned.pc = "done" /\ arguments.outcome_constraints # << >>) =>
        LET ocs == arguments.outcome_constraints
            names == arguments.outcomes
        IN  IF \E i \in DOMAIN ocs : ocs[i].metric \notin Range(names)
            THEN returned.raised = "ValueError" /\ returned.value = None
            ELSE /\ returned.raised = "none"
                 /\ Len(returned.value[1]) = Len(ocs)
                 /\ Len(returned.value[2]) = Len(ocs)
                 /\ \A i \in DOMAIN ocs :
                        LET row == returned.value[1][i]
                            bi == returned.value[2][i][1]
                            j == Index(names, ocs[i].metric)
                        IN  /\ Len(row) = Len(names)
                            /\ \A k \in DOMAIN row : k # j => row[k] = Float(0)
                            /\ ocs[i].op = "LEQ" =>
                                   row[j] = Float(1) /\ bi = ocs[i].bound
                            /\ ocs[i].op = "GEQ" =>
                                   /\ row[j] = Float(0 - 1)
                                   /\ bi = Sub(Float(0), ocs[i].bound)
                            /\ \A y \in [DOMAIN names -> OutcomeValues] :
                                   Leq(RowDot(row, y, 1), bi)
                                       <=> Declared(ocs[i], names, y)

\* A >= constraint on b and a <= constraint on a were encoded against the
\* outcomes [b, a].
C11_Witness ==
    /\ returned.pc = "done"
    /\ returned.raised = "none"
    /\ arguments.outcomes = <<"b", "a">>
    /\ arguments.outcome_constraints =
           <<OutcomeConstraint("b", "GEQ", Float(3)),
             OutcomeConstraint("a", "LEQ", Float(0 - 2))>>
    /\ returned.value = << <<<<Float(0 - 1), Float(0)>>, <<Float(0), Float(1)>>>>,
                           <<<<Float(0 - 3)>>, <<Float(0 - 2)>>>> >>

\* ----------------------------------------- extract_objective_thresholds

\* The most thresholds in one reference point.
MaxThresholds == 2

\* Metrics a threshold may name: those of the outcome lists and one no
\* model knows.
ThresholdMetrics == MetricNames \cup {"z"}

ThresholdBounds == {Float(1), Float(0 - 2)}

\* Reference points: thresholds <<metric name, bound>> over distinct metrics.
ThresholdLists ==
    UNION { {ots \in [1..n -> ThresholdMetrics \X ThresholdBounds] :
                \A j, k \in 1..n : j # k => ots[j][1] # ots[k][1]} :
            n \in 0..MaxThresholds }

InitObjectiveThresholds ==
    /\ IdleUnitX
    /\ IdleEncoder
    /\ IdleFrontier
    /\ arguments \in {[objective_thresholds |-> ots, outcomes |-> names] :
                         ots \in ThresholdLists, names \in OutcomeLists}
    /\ frame = None
    /\ returned = [pc |-> "ready", value |-> None, raised |-> "none"]

ExtractObjectiveThresholds ==
    /\ returned.pc = "ready"
    /\ returned' = [pc |-> "done",
                    value |-> extract_objective_thresholds(
                                  arguments.objective_thresholds, arguments.outcomes),
                    raised |-> "none"]
    /\ UNCHANGED <<arguments, frame, unitxVars, encoderVars, frontierVars>>

NextObjectiveThresholds == ExtractObjectiveThresholds

SpecObjectiveThresholds == InitObjectiveThresholds /\ [][NextObjectiveThresholds]_vars

\* ---- claim C12

\* The positions of the outcome list whose name has a threshold.
WithThreshold(ots, names) ==
    {i \in DOMAIN names : \E k \in DOMAIN ots : ots[k][1] = names[i]}

\* C12: extract_objective_thresholds returns, without raising, exactly one
\* bound per outcome name that has a threshold, in outcome-list order: the
\* k-th entry is the bound of the k-th such outcome.  Outcomes without a
\* threshold leave no placeholder, thresholds on unknown metrics are dropped,
\* and the result is never longer than the list of thresholds.
C12_ThresholdsInOutcomeOrder ==
    returned.pc = "done" =>
        LET ots == arguments.objective_thresholds
            names == arguments.outcomes
            kept == WithThreshold(ots, names)
        IN  /\ returned.raised = "none"
            /\ Len(returned.value) = Cardinality(kept)
            /\ Len(returned.value) <= Len(ots)
            /\ \A i \in kept :
                   LET k == Cardinality({j \in kept : j <= i})
                   IN  \E t \in DOMAIN ots :
                           /\ ots[t][1] = names[i]
                           /\ returned.value[k] = ots[t][2]

\* Thresholds for c and a against the outcomes [a, b, c] gave
\* [value(a), value(c)].
C12_Witness ==
    /\ returned.pc = "done"
    /\ arguments.outcomes = <<"a", "b", "c">>
    /\ arguments.objective_thresholds = <<<<"c", Float(1)>>, <<"a", Float(0 - 2)>>>>
    /\ returned.value = <<Float(0 - 2), Float(1)>>

\* ------------------------------------------- UnitX: failures and frames

\* C13: transform_search_space completes without error on every search
\* space, and leaves every ineligible parameter (integer range, log-scale
\* range, categorical) as it was, bounds and target value included.
C13_IneligibleUntouched ==
    [][ history' = Append(history, "transform_search_space")
        => /\ raised' = "none"
           /\ \A i \in DOMAIN search_space.parameters :
                  ~IsEligible(search_space.parameters[i]) =>
                      search_space'.parameters[i] = search_space.parameters[i]
      ]_vars

\* C14: all-or-nothing.  A call of transform_observation_features,
\* untransform_observation_features or transform_search_space that raises
\* leaves every observation feature and the search space holding the values
\* they held before the call.
C14_AllOrNothing ==
    [][ (history' # history /\ raised' # "none")
        => /\ observation_features' = observation_features
           /\ search_space' = search_space
      ]_vars

\* Some observation feature omits a parameter with recorded bounds.
OmitsEligible(obsfs) == \E i \in DOMAIN obsfs : ~Complete(obsfs[i])

\* C19: partial observation features.  When some observation feature omits
\* an eligible parameter, transform_observation_features followed by
\* untransform_observation_features raises nothing and ends with the
\* features as given: present values restored, no parameter added.
C19_PartialRoundTrip ==
    ( /\ OmitsEligible(initial.observation_features)
      /\ history = <<"transform_observation_features",
                     "untransform_observation_features">> )
        => /\ raised = "none"
           /\ observation_features = initial.observation_features

\* ------------------------------------- get_pending_observation_features

\* The most trials on an experiment.
MaxTrials == 2

\* A trial status, as the flags the function reads.
TrialStatus(name) ==
    [name |-> name,
     is_deployed |-> name \in {"STAGED", "RUNNING"},
     is_failed |-> name = "FAILED",
     is_abandoned |-> name = "ABANDONED"]

\* not_none(val): val, or an error for None.
not_none(val) ==
    IF val.some THEN [value |-> val.value, raised |-> "none"]
    ELSE [value |-> "", raised |-> "ValueError"]

\* ObservationFeatures.from_arm(arm=arm, trial_index=np.int64(trial_index))
from_arm(arm, trial_index) == [arm |-> arm, trial_index |-> trial_index]

\* A variant that does not look at the fetched data.
IsPending_ignoring_data(trial, metric_name, include_failed_as_pending) ==
    LET include_since_failed == include_failed_as_pending /\ trial.status.is_failed
    IN  \/ trial.status.is_abandoned
        \/ /\ trial.status.is_deployed \/ include_since_failed
           /\ trial.arms.some

\* The condition under which a trial's arms are appended for a metric:
\* trial.arms for a BatchTrial, trial.arm for a Trial.
IsPending(trial, metric_name, include_failed_as_pending) ==
    LET include_since_failed == include_failed_as_pending /\ trial.status.is_failed
    IN  \/ trial.status.is_abandoned
        \/ /\ trial.status.is_deployed \/ include_since_failed
           /\ metric_name \notin trial.data
           /\ trial.arms.some

\* What one trial appends to the list of one metric, and the exception that
\* ended the appending.
PendingOfTrial(trial, trial_index, metric_name, include_failed_as_pending) ==
    IF ~IsPending(trial, metric_name, include_failed_as_pending)
    THEN [value |-> << >>, raised |-> "none"]
    ELSE IF trial.class = "BatchTrial"
         THEN [value |-> [k \in DOMAIN trial.arms.value |->
                             from_arm(trial.arms.value[k], trial_index)],
               raised |-> "none"]
         ELSE LET arm == not_none(trial.arms)
              IN  IF arm.raised # "none"
                  THEN [value |-> << >>, raised |-> arm.raised]
                  ELSE [value |-> <<from_arm(arm.value[1], trial_index)>>,
                        raised |-> "none"]

\* The loop over experiment.trials.items(), from trial i on.
RECURSIVE PendingFrom(_, _, _, _, _)
PendingFrom(pending_features, trials, metrics, include_failed_as_pending, i) ==
    IF i > Len(trials) THEN [value |-> pending_features, raised |-> "none"]
    ELSE LET added == [m \in metrics |->
                          PendingOfTrial(trials[i], i - 1, m, include_failed_as_pending)]
         IN  IF \E m \in metrics : added[m].raised # "none"
             THEN [value |-> pending_features, raised |-> "ValueError"]
             ELSE PendingFrom(
                      [m \in metrics |-> pending_features[m] \o added[m].value],
                      trials, metrics, include_failed_as_pending, i + 1)

\* The result is None unless some list is non-empty.
get_pending_observation_features(experiment, include_failed_as_pending) ==
    LET r == PendingFrom([m \in experiment.metrics |-> << >>], experiment.trials,
                         experiment.metrics, include_failed_as_pending, 1)
    IN  IF r.raised # "none" THEN [value |-> NoList, raised |-> r.raised]
        ELSE IF \E m \in experiment.metrics : r.value[m] # << >>
             THEN [value |-> Some(r.value), raised |-> "none"]
             ELSE [value |-> NoList, raised |-> "none"]

\* ---- inputs

\* experiment.metrics
ExperimentMetrics == {"a", "b"}

StatusNames == {"CANDIDATE", "RUNNING", "COMPLETED", "FAILED", "ABANDONED"}

\* The metrics with rows in a trial's fetched data.
FetchedData == {{}, {"a"}, {"a", "b"}}

\* A Trial with its arm or with none yet; a BatchTrial with its arms.
TrialArms(class) ==
    IF class = "Trial" THEN {NoList, Some(<<"arm0">>)}
    ELSE {Some(<< >>), Some(<<"arm0", "arm1">>)}

Trials ==
    UNION { {[class |-> class, status |-> TrialStatus(st), arms |-> arms, data |-> dat] :
                st \in StatusNames, arms \in TrialArms(class), dat \in FetchedData} :
            class \in {"Trial", "BatchTrial"} }

Experiments ==
    {[trials |-> ts, metrics |-> ExperimentMetrics] :
        ts \in UNION {[1..n -> Trials] : n \in 0..MaxTrials}}

InitPending ==
    /\ IdleUnitX
    /\ IdleEncoder
    /\ IdleFrontier
    /\ arguments \in {[experiment |-> ex, include_failed_as_pending |-> inc] :
                         ex \in Experiments, inc \in BOOLEAN}
    /\ frame = None
    /\ returned = [pc |-> "ready", value |-> None, raised |-> "none"]

GetPendingObservationFeatures ==
    /\ returned.pc = "ready"
    /\ LET r == get_pending_observation_features(arguments.experiment,
                                                 arguments.include_failed_as_pending)
       IN  returned' = [pc |-> "done", value |-> r.value, raised |-> r.raised]
    /\ UNCHANGED <<arguments, frame, unitxVars, encoderVars, frontierVars>>

NextPending == GetPendingObservationFeatures

SpecPending == InitPending /\ [][NextPending]_vars

\* ---- claim C15

\* The trial an observation feature was made from.
TrialOf(f) == arguments.experiment.trials[f.trial_index + 1]

\* The call returned a mapping.
ReturnedMapping ==
    /\ returned.pc = "done"
    /\ returned.raised = "none"
    /\ returned.value.some

\* Failed trials are listed only on request, and a mapping is returned only
\* when some arm is pending for some metric.
FailedOnlyOnRequest ==
    /\ (ReturnedMapping /\ ~arguments.include_failed_as_pending) =>
           \A m \in ExperimentMetrics :
               \A k \in DOMAIN returned.value.value[m] :
                   ~TrialOf(returned.value.value[m][k]).status.is_failed
    /\ ReturnedMapping =>
           \E m \in ExperimentMetrics : returned.value.value[m] # << >>

\* C15 as claimed: an arm is listed as pending for metric m only if its
\* trial is deployed (or failed, with include_failed_as_pending) and the
\* trial's fetched data has no row for m; failed trials are never listed
\* without include_failed_as_pending; the result is None when no arm is
\* pending for any metric.
C15_PendingOnlyIfDeployedWithoutData ==
    /\ ReturnedMapping =>
           \A m \in ExperimentMetrics :
               \A k \in DOMAIN returned.value.value[m] :
                   LET t == TrialOf(returned.value.value[m][k])
                   IN  /\ \/ t.status.is_deployed
                          \/ t.status.is_failed /\ arguments.include_failed_as_pending
                       /\ m \notin t.data
    /\ FailedOnlyOnRequest

\* C15, amended: an arm is listed as pending for metric m only if its trial
\* is abandoned (whatever its data), or is deployed (or failed, with
\* include_failed_as_pending) and the trial's fetched data has no row for m;
\* failed trials are never listed without include_failed_as_pending; the
\* result is None when no arm is pending for any metric.
C15_PendingOnlyIfAbandonedOrWithoutData ==
    /\ ReturnedMapping =>
           \A m \in ExperimentMetrics :
               \A k \in DOMAIN returned.value.value[m] :
                   LET t == TrialOf(returned.value.value[m][k])
                   IN  \/ t.status.is_abandoned
                       \/ /\ \/ t.status.is_deployed
                             \/ t.status.is_failed /\ arguments.include_failed_as_pending
                          /\ m \notin t.data
    /\ FailedOnlyOnRequest

\* An abandoned trial with data for a and a running trial with data for a:
\* the abandoned trial's arm is pending for both metrics, the running
\* trial's arm for b only.
C15_Witness ==
    /\ ReturnedMapping
    /\ Len(arguments.experiment.trials) = 2
    /\ arguments.experiment.trials[1] =
           [class |-> "Trial", status |-> TrialStatus("ABANDONED"),
            arms |-> Some(<<"arm0">>), data |-> {"a"}]
    /\ arguments.experiment.trials[2] =
           [class |-> "Trial", status |-> TrialStatus("RUNNING"),
            arms |-> Some(<<"arm0">>), data |-> {"a"}]
    /\ returned.value.value["a"] = <<from_arm("arm0", 0)>>
    /\ returned.value.value["b"] = <<from_arm("arm0", 0), from_arm("arm0", 1)>>

\* ---------------------------------------- pending_observations_as_array

\* The most pending observation features under one metric.
MaxPending == 2

\* A variant that reads the parameters in reverse order.
PendingRow_reversed(po, param_names) ==
    [j \in DOMAIN param_names |-> po[param_names[Len(param_names) + 1 - j]]]

\* [po.parameters[p] for p in param_names], for po carrying every name.
PendingRow(po, param_names) == [j \in DOMAIN param_names |-> po[param_names[j]]]

\* np.array([[po.parameters[p] for p in param_names] for po in po_list]):
\* the rows, or KeyError for a feature lacking a name.
PendingRows(po_list, param_names) ==
    IF \E k \in DOMAIN po_list : ~(Range(param_names) \subseteq DOMAIN po_list[k])
    THEN [value |-> << >>, raised |-> "KeyError"]
    ELSE [value |-> [k \in DOMAIN po_list |-> PendingRow(po_list[k], param_names)],
          raised |-> "none"]

pending_observations_as_array(pending_observations, outcome_names, param_names) ==
    IF DOMAIN pending_observations = {}
    THEN [value |-> NoList, raised |-> "none"]
    ELSE LET listed == DOMAIN pending_observations \cap Range(outcome_names)
             rows == [m \in listed |-> PendingRows(pending_observations[m], param_names)]
         IN  IF \E m \in listed : rows[m].raised # "none"
             THEN [value |-> NoList, raised |-> "KeyError"]
             ELSE [value |-> Some([i \in DOMAIN outcome_names |->
                                      IF outcome_names[i] \in listed
                                      THEN rows[outcome_names[i]].value
                                      ELSE << >>]),
                   raised |-> "none"]

\* ---- inputs

\* Pending features over the parameters x and n; the last one omits n.
PendingFeatureChoices ==
    { ("x" :> Float(1)) @@ ("n" :> Float(2)),
      ("x" :> Float(3)) @@ ("n" :> Float(4)),
      "x" :> Float(5) }

PendingLists == UNION {[1..n -> PendingFeatureChoices] : n \in 0..MaxPending}

\* Mappings from some of the metrics a and c to lists of pending features.
PendingObservations ==
    UNION {[D -> PendingLists] : D \in SUBSET {"a", "c"}}

ParamNameLists == {<<"x", "n">>, <<"n", "x">>, <<"x">>}

InitPendingArray ==
    /\ IdleUnitX
    /\ IdleEncoder
    /\ IdleFrontier
    /\ arguments \in {[pending_observations |-> po, outcome_names |-> names,
                       param_names |-> ps] :
                         po \in PendingObservations, names \in OutcomeLists,
                         ps \in ParamNameLists}
    /\ frame = None
    /\ returned = [pc |-> "ready", value |-> None, raised |-> "none"]

PendingObservationsAsArray ==
    /\ returned.pc = "ready"
    /\ LET r == pending_observations_as_array(arguments.pending_observations,
                                              arguments.outcome_names,
                                              arguments.param_names)
       IN  returned' = [pc |-> "done", value |-> r.value, raised |-> r.raised]
    /\ UNCHANGED <<arguments, frame, unitxVars, encoderVars, frontierVars>>

NextPendingArray == PendingObservationsAsArray

SpecPendingArray == InitPendingArray /\ [][NextPendingArray]_vars

\* ---- claim C16

\* Every pending feature of a metric of the outcome list carries every
\* parameter of param_names.
RowsAvailable ==
    \A m \in DOMAIN arguments.pending_observations \cap Range(arguments.outcome_names) :
        \A k \in DOMAIN arguments.pending_observations[m] :
            Range(arguments.param_names)
                \subseteq DOMAIN arguments.pending_observations[m][k]

\* C16: pending_observations_as_array.  An empty mapping yields None.
\* Otherwise, for pending features carrying the parameters of param_names,
\* the result has one entry per outcome name, in outcome order: for an
\* outcome with pending features an n_pending x n_params array whose row k,
\* column j is the value of parameter param_names[j] in the k-th feature, for
\* an outcome without pending features an empty array; entries of the
\* mapping for metrics outside the outcome list are ignored without error.
C16_PendingArrayShape ==
    returned.pc = "done" =>
        LET po == arguments.pending_observations
            names == arguments.outcome_names
            ps == arguments.param_names
        IN  /\ DOMAIN po = {} =>
                   returned.raised = "none" /\ ~returned.value.some
            /\ (DOMAIN po # {} /\ RowsAvailable) =>
                   /\ returned.raised = "none"
                   /\ returned.value.some
                   /\ Len(returned.value.value) = Len(names)
                   /\ \A i \in DOMAIN names :
                          LET entry == returned.value.value[i]
                          IN  IF names[i] \in DOMAIN po /\ po[names[i]] # << >>
                              THEN /\ Len(entry) = Len(po[names[i]])
                                   /\ \A k \in DOMAIN entry :
                                          /\ Len(entry[k]) = Len(ps)
                                          /\ \A j \in DOMAIN ps :
                                                 entry[k][j] = po[names[i]][k][ps[j]]
                              ELSE entry = << >>

\* Two features pending for a, and one for c that omits n, against the
\* outcomes [b, a] and the parameters [n, x]: an empty array for b and a
\* 2 x 2 array for a.
C16_Witness ==
    /\ returned.pc = "done"
    /\ arguments.outcome_names = <<"b", "a">>
    /\ arguments.param_names = <<"n", "x">>
    /\ arguments.pending_observations =
           ("a" :> <<("x" :> Float(1)) @@ ("n" :> Float(2)),
                     ("x" :> Float(3)) @@ ("n" :> Float(4))>>)
           @@ ("c" :> <<"x" :> Float(5)>>)
    /\ returned.raised = "none"
    /\ returned.value = Some(<< << >>, <<<<Float(2), Float(1)>>, <<Float(4), Float(3)>>>> >>)

\* --------------------------------------------------- transform_callback

\* A variant that untransforms in registration order.
RoundtripUntransformOrder_forward(transforms) == [k \in DOMAIN transforms |-> k]

\* reversed(transforms.values()): the positions of the transforms, last
\* registered first.
RoundtripUntransformOrder(transforms) ==
    [k \in DOMAIN transforms |-> Len(transforms) + 1 - k]

\* ObservationFeatures(parameters={p: float(x[i]) for i, p in enumerate(param_names)})
FeaturesOfArray(x, param_names) ==
    [p \in Range(param_names) |-> x[Index(param_names, p)]]

\* [float(observation_features[0].parameters[p]) for p in param_names]
ArrayOfFeatures(obsf, param_names) ==
    [j \in DOMAIN param_names |-> obsf[param_names[j]]]

\* ---- inputs

\* UnitX transforms, by their recorded bounds; the last one was built from a
\* search space with a parameter the callback's param_names do not have.
UnitXTransforms ==
    { <<[name |-> "x", l |-> Float(2), u |-> Float(10)]>>,
      <<[name |-> "n", l |-> Float(0), u |-> Float(5)]>>,
      <<[name |-> "x", l |-> Float(0 - 1), u |-> Float(1)],
        [name |-> "n", l |-> Float(1), u |-> Float(3)]>>,
      <<[name |-> "k", l |-> Float(0), u |-> Float(1)]>> }

\* transforms.values(), in registration order.
TransformChains == UNION {[1..n -> UnitXTransforms] : n \in 0..MaxTransforms}

\* Points in the transformed space.
Points == [1..2 -> {Float(0), Frac(1, 2), Float(3)}]

InitCallback ==
    /\ IdleUnitX
    /\ IdleEncoder
    /\ IdleFrontier
    /\ arguments \in {[param_names |-> ps, transforms |-> ts, x |-> x] :
                         ps \in {<<"x", "n">>, <<"n", "x">>},
                         ts \in TransformChains, x \in Points}
    /\ frame = None
    /\ returned = [pc |-> "ready", value |-> None, raised |-> "none"]

\* _roundtrip_transform, lines 337-341: the array as observation features.
RoundtripBegin ==
    /\ returned.pc = "ready"
    /\ frame' = [pc |-> "untransform", k |-> 1, trace |-> << >>,
                 observation_features |->
                     <<FeaturesOfArray(arguments.x, arguments.param_names)>>]
    /\ returned' = [returned EXCEPT !.pc = "called"]
    /\ UNCHANGED <<arguments, unitxVars, encoderVars, frontierVars>>

\* Lines 343-346: one turn of the reverse loop.
RoundtripUntransform ==
    /\ returned.pc = "called"
    /\ frame.pc = "untransform"
    /\ frame.k <= Len(arguments.transforms)
    /\ LET t == RoundtripUntransformOrder(arguments.transforms)[frame.k]
           r == untransform_observation_features(arguments.transforms[t],
                                                 frame.observation_features)
       IN  /\ frame' = [frame EXCEPT
                           !.k = @ + 1,
                           !.trace = Append(@, Event("untransform_observation_features", t)),
                           !.observation_features = r.observation_features]
           /\ returned' = IF r.raised # "none"
                          THEN [pc |-> "done", value |-> None, raised |-> r.raised]
                          ELSE returned
    /\ UNCHANGED <<arguments, unitxVars, encoderVars, frontierVars>>

\* Line 348: the reverse loop is over, the forward loop starts.
RoundtripForward ==
    /\ returned.pc = "called"
    /\ frame.pc = "untransform"
    /\ frame.k > Len(arguments.transforms)
    /\ frame' = [frame EXCEPT !.pc = "transform", !.k = 1]
    /\ UNCHANGED <<arguments, returned, unitxVars, encoderVars, frontierVars>>

\* Lines 348-351: one turn of the forward loop.
RoundtripTransform ==
    /\ returned.pc = "called"
    /\ frame.pc = "transform"
    /\ frame.k <= Len(arguments.transforms)
    /\ frame' = [frame EXCEPT
                    !.k = @ + 1,
                    !.trace = Append(@, Event("transform_observation_features", frame.k)),
                    !.observation_features =
                        transform_observation_features(arguments.transforms[frame.k], @)]
    /\ UNCHANGED <<arguments, returned, unitxVars, encoderVars, frontierVars>>

\* Lines 353-361: the features as an array again.
RoundtripReturn ==
    /\ returned.pc = "called"
    /\ frame.pc = "transform"
    /\ frame.k > Len(arguments.transforms)
    /\ returned' = [pc |-> "done",
                    value |-> ArrayOfFeatures(frame.observation_features[1],
                                              arguments.param_names),
                    raised |-> "none"]
    /\ UNCHANGED <<arguments, frame, unitxVars, encoderVars, frontierVars>>

NextCallback ==
    \/ RoundtripBegin
    \/ RoundtripUntransform
    \/ RoundtripForward
    \/ RoundtripTransform
    \/ RoundtripReturn

SpecCallback == InitCallback /\ [][NextCallback]_vars

\* ---- claim C17

\* Untransforms of tn, ..., t1, then transforms of t1, ..., tn.
RoundtripOrder(n) ==
    [i \in 1..(2 * n) |->
        IF i <= n THEN Event("untransform_observation_features", n + 1 - i)
        ELSE Event("transform_observation_features", i - n)]

\* C17: the function transform_callback returns calls
\* untransform_observation_features of tn, ..., t1 and only then
\* transform_observation_features of t1, ..., tn: at every moment the calls
\* made are an initial part of that sequence, a call that returns has made
\* each of them exactly once, and it returns the values of the final
\* observation feature in param_names order.
C17_RoundtripOrder ==
    returned.pc \in {"called", "done"} =>
        LET n == Len(arguments.transforms)
        IN  /\ Len(frame.trace) <= 2 * n
            /\ frame.trace = SubSeq(RoundtripOrder(n), 1, Len(frame.trace))
            /\ (returned.pc = "done" /\ returned.raised = "none") =>
                   /\ frame.trace = RoundtripOrder(n)
                   /\ Len(returned.value) = Len(arguments.param_names)
                   /\ \A j \in DOMAIN arguments.param_names :
                          returned.value[j] =
                              frame.observation_features[1][arguments.param_names[j]]
                   /\ returned.value = arguments.x

\* The round trip through two UnitX transforms of x returned the point it
\* was given, for the parameters [n, x].
C17_Witness ==
    /\ returned.pc = "done"
    /\ returned.raised = "none"
    /\ arguments.param_names = <<"n", "x">>
    /\ arguments.x = <<Float(3), Frac(1, 2)>>
    /\ arguments.transforms =
           << <<[name |-> "x", l |-> Float(2), u |-> Float(10)]>>,
              <<[name |-> "x", l |-> Float(0 - 1), u |-> Float(1)],
                [name |-> "n", l |-> Float(1), u |-> Float(3)]>> >>
    /\ frame.trace = <<Event("untransform_observation_features", 2),
                       Event("untransform_observation_features", 1),
                       Event("transform_observation_features", 1),
                       Event("transform_observation_features", 2)>>
    /\ returned.value = <<Float(3), Frac(1, 2)>>

\* ------------------------------------ hypervolume: the reference point

\* hypervolume has encoded its reference point.
ReferencePointEncoded ==
    \/ pc = "hv_compute"
    \/ pc = "done" /\ result = [value |-> "hv.compute(means)", raised |-> "none"]

\* C18: reference-point consistency.  Whatever the objective_thresholds
\* argument (None, an empty list, a non-empty list), the thresholds
\* pareto_frontier encoded for the frontier inside hypervolume and the
\* thresholds hypervolume encodes as the reference point of the integral
\* come from the same source, the supplied thresholds or the resolved
\* configuration's, and so are the same.
C18_ReferencePointConsistency ==
    ReferencePointEncoded =>
        /\ Overrides(pf.objective_thresholds) <=> hv.objective_thresholds.some
        /\ hv.obj_t = pf.obj_t

====
